---- MODULE Spec2Model ----
(***************************************************************************)
(* Model of CC-Project/cc-proj.py: an AWS Lambda handler that converts a   *)
(* file between formats (pdf-png, png-jpeg, jpeg-png, pdf-jpeg), stores    *)
(* input and output in two S3 buckets and returns a presigned URL.         *)
(*                                                                         *)
(* Every invocation i is a process that walks lambda_handler statement by  *)
(* statement; a raised exception jumps to the handler's except clause in   *)
(* the same step.  S3, /tmp and the uuid source are shared by invocations. *)
(*                                                                         *)
(* Data: bytes are sequences of integers 0..255.  Base64 text is a         *)
(* sequence of integers: 0..63 the alphabet by value, 64 the pad '=',      *)
(* 65 a character outside the alphabet.  Files are miniatures that keep    *)
(* what the codecs look at: the first signature byte (0x89 PNG, 0xFF JPEG, *)
(* 0x25 '%' PDF), then the PNG colour type / JPEG component count / PDF    *)
(* page count, then one sample per channel of a one-pixel image (PDF: one  *)
(* grey level per page).                                                   *)
(***************************************************************************)
EXTENDS Integers, Sequences, FiniteSets, TLC

VARIABLES
    pc,               \* position of each invocation in lambda_handler
    event,            \* the event the invocation received
    body,             \* local `body` (bytes or text)
    source_format,    \* local `source_format`
    target_format,    \* local `target_format`
    input_filename,   \* local `input_filename`
    output_filename,  \* local `output_filename`
    data,             \* local `png_data` / `jpeg_data` of the conversion function
    resp,             \* responses returned by the invocation (a sequence)
    calls,            \* the external calls the invocation made, in order
    inputBucket,      \* S3 objects of INPUT_BUCKET
    outputBucket,     \* S3 objects of OUTPUT_BUCKET
    tmpfs,            \* files under /tmp
    nextUuid          \* the uuid source: the next unused identifier

vars == <<pc, event, body, source_format, target_format, input_filename,
          output_filename, data, resp, calls, inputBucket, outputBucket,
          tmpfs, nextUuid>>

locals == <<body, source_format, target_format, input_filename,
            output_filename, data>>

shared == <<inputBucket, outputBucket, tmpfs, nextUuid>>

----------------------------------------------------------------------------
(* Bounds *)

\* number of invocations that may run concurrently
NumInv == 2

Invs == 1..NumInv

\* the invocation of the single-invocation specification
Solo == {1}

----------------------------------------------------------------------------
(* Program constants *)

INPUT_BUCKET == "INPUT_BUCKET"

OUTPUT_BUCKET == "OUTPUT_BUCKET"

ExpiresIn == 3600

JpegQuality == 90

\* supported_conversions.keys(), in insertion order
SupportedKeys == << <<"pdf", "png">>, <<"png", "jpeg">>, <<"jpeg", "png">>, <<"pdf", "jpeg">> >>

RangeOf(s) == {s[k] : k \in 1..Len(s)}

----------------------------------------------------------------------------
(* str.lower() on the format strings the requests use *)

Lower(s) ==
    CASE s = "PDF" -> "pdf"
      [] s = "Png" -> "png"
      [] s = "PNG" -> "png"
      [] s = "JPEG" -> "jpeg"
      [] OTHER -> s

----------------------------------------------------------------------------
(* base64 *)

Pad == 64

\* base64.b64encode: three bytes to four characters, '=' padding
RECURSIVE B64Encode(_)
B64Encode(b) ==
    IF Len(b) = 0 THEN <<>>
    ELSE IF Len(b) = 1 THEN
        << b[1] \div 4, (b[1] % 4) * 16, Pad, Pad >>
    ELSE IF Len(b) = 2 THEN
        << b[1] \div 4, (b[1] % 4) * 16 + b[2] \div 16, (b[2] % 16) * 4, Pad >>
    ELSE
        << b[1] \div 4, (b[1] % 4) * 16 + b[2] \div 16,
           (b[2] % 16) * 4 + b[3] \div 64, b[3] % 64 >>
        \o B64Encode(SubSeq(b, 4, Len(b)))

\* binascii.a2b_base64, non-strict (what base64.b64decode calls): the scan
\* state is the position k, quad_pos, leftchar, pads and the output so far.
RECURSIVE A2bScan(_, _, _, _, _, _)
A2bScan(t, k, quad_pos, leftchar, pads, out) ==
    IF k > Len(t) THEN
        IF quad_pos = 0 THEN [ok |-> TRUE, err |-> "", bytes |-> out]
        ELSE IF quad_pos = 1 THEN
            [ok |-> FALSE, bytes |-> <<>>,
             err |-> "Invalid base64-encoded string: number of data characters cannot be 1 more than a multiple of 4"]
        ELSE [ok |-> FALSE, err |-> "Incorrect padding", bytes |-> <<>>]
    ELSE IF t[k] = Pad THEN
        IF quad_pos >= 2 /\ quad_pos + pads + 1 >= 4
        THEN [ok |-> TRUE, err |-> "", bytes |-> out]
        ELSE A2bScan(t, k + 1, quad_pos, leftchar,
                     IF quad_pos >= 2 THEN pads + 1 ELSE pads, out)
    ELSE IF t[k] > Pad THEN
        A2bScan(t, k + 1, quad_pos, leftchar, pads, out)
    ELSE IF quad_pos = 0 THEN
        A2bScan(t, k + 1, 1, t[k], 0, out)
    ELSE IF quad_pos = 1 THEN
        A2bScan(t, k + 1, 2, t[k] % 16, 0,
                Append(out, leftchar * 4 + t[k] \div 16))
    ELSE IF quad_pos = 2 THEN
        A2bScan(t, k + 1, 3, t[k] % 4, 0,
                Append(out, leftchar * 16 + t[k] \div 4))
    ELSE
        A2bScan(t, k + 1, 0, 0, 0, Append(out, leftchar * 64 + t[k]))

B64Decode(t) == A2bScan(t, 1, 0, 0, 0, <<>>)

----------------------------------------------------------------------------
(* Files and codecs (PIL, PyMuPDF) *)

SigPNG == 137

SigJPEG == 255

SigPDF == 37

NoImage == [mode |-> "", px |-> <<>>]

NoData == [format |-> "", quality |-> 0, mode |-> "", px |-> <<>>]

\* PNG colour type -> PIL mode
PngMode(ct) ==
    CASE ct = 0 -> "L"
      [] ct = 2 -> "RGB"
      [] ct = 3 -> "P"
      [] ct = 4 -> "LA"
      [] ct = 6 -> "RGBA"
      [] OTHER -> ""

PngColourType(mode) ==
    CASE mode = "L" -> 0
      [] mode = "RGB" -> 2
      [] mode = "P" -> 3
      [] mode = "LA" -> 4
      [] OTHER -> 6

\* Image.getbands(): the number of bands of a mode
Bands(mode) ==
    CASE mode = "L" -> 1
      [] mode = "P" -> 1
      [] mode = "LA" -> 2
      [] mode = "RGB" -> 3
      [] mode = "RGBA" -> 4
      [] OTHER -> 0

\* Image.open: identifies the file by its content, never by its name
ImageOpen(bytes) ==
    IF Len(bytes) >= 2 /\ bytes[1] = SigPNG /\ PngMode(bytes[2]) # ""
                       /\ Len(bytes) = 2 + Bands(PngMode(bytes[2]))
    THEN [ok |-> TRUE, err |-> "",
          img |-> [mode |-> PngMode(bytes[2]), px |-> SubSeq(bytes, 3, Len(bytes))]]
    ELSE IF Len(bytes) >= 2 /\ bytes[1] = SigJPEG /\ bytes[2] \in {1, 3}
                            /\ Len(bytes) = 2 + bytes[2]
    THEN [ok |-> TRUE, err |-> "",
          img |-> [mode |-> IF bytes[2] = 1 THEN "L" ELSE "RGB",
                   px |-> SubSeq(bytes, 3, Len(bytes))]]
    ELSE [ok |-> FALSE, err |-> "cannot identify image file", img |-> NoImage]

\* the PNG file of an image (pix.tobytes("png"))
PngBytes(img) == <<SigPNG, PngColourType(img.mode)>> \o img.px

\* fitz.open(path); doc.load_page(0); page.get_pixmap(): the first page only,
\* rendered with the defaults (RGB, no alpha)
Rasterize(bytes) ==
    IF Len(bytes) >= 2 /\ bytes[1] = SigPDF /\ Len(bytes) = 2 + bytes[2]
    THEN IF bytes[2] >= 1
         THEN [ok |-> TRUE, err |-> "",
               img |-> [mode |-> "RGB", px |-> <<bytes[3], bytes[3], bytes[3]>>]]
         ELSE [ok |-> FALSE, err |-> "page 0 not in document", img |-> NoImage]
    ELSE [ok |-> FALSE, err |-> "cannot open broken document", img |-> NoImage]

\* img.split(): one band per channel, each a one-pixel image
Split(img) == [k \in 1..Len(img.px) |-> img.px[k]]

\* the mask blend of Image.paste for one sample
Blend(src, dst, mask) == (src * mask + dst * (255 - mask)) \div 255

\* img converted to the mode of the RGB background before it is pasted
ToRGB(img) ==
    IF img.mode \in {"L", "LA"} THEN <<img.px[1], img.px[1], img.px[1]>>
    ELSE <<img.px[1], img.px[2], img.px[3]>>

\* background = Image.new('RGB', img.size, (255, 255, 255))
\* background.paste(img, mask=img.split()[3]); img = background
\* Python's index 3 is the fourth band.
Flatten(img) ==
    IF img.mode \in {"RGBA", "LA"}
    THEN IF Len(Split(img)) < 4
         THEN [ok |-> FALSE, err |-> "tuple index out of range", img |-> NoImage]
         ELSE [ok |-> TRUE, err |-> "",
               img |-> [mode |-> "RGB",
                        px |-> [k \in 1..3 |->
                                  Blend(ToRGB(img)[k], 255, Split(img)[4])]]]
    ELSE [ok |-> TRUE, err |-> "", img |-> img]

\* img.save(buffer, format='JPEG', quality=90)
SaveJPEG(img) ==
    IF img.mode \in {"L", "RGB"}
    THEN [ok |-> TRUE, err |-> "",
          data |-> [format |-> "JPEG", quality |-> JpegQuality,
                    mode |-> img.mode, px |-> img.px]]
    ELSE [ok |-> FALSE, err |-> "cannot write mode as JPEG", data |-> NoData]

\* img.save(buffer, format='PNG'); pix.tobytes("png")
SavePNG(img) ==
    [ok |-> TRUE, err |-> "",
     data |-> [format |-> "PNG", quality |-> 0, mode |-> img.mode, px |-> img.px]]

Fail(e) == [ok |-> FALSE, err |-> e, data |-> NoData]

\* The codec work of the four conversion functions, on the bytes of the
\* downloaded temp file: what ends up in png_data / jpeg_data, or the error.
convert_pdf_to_png(bytes) ==
    LET pix == Rasterize(bytes)
    IN IF ~pix.ok THEN Fail(pix.err) ELSE SavePNG(pix.img)

convert_png_to_jpeg(bytes) ==
    LET opened == ImageOpen(bytes)
        flat == Flatten(opened.img)
    IN IF ~opened.ok THEN Fail(opened.err)
       ELSE IF ~flat.ok THEN Fail(flat.err)
       ELSE SaveJPEG(flat.img)

convert_jpeg_to_png(bytes) ==
    LET opened == ImageOpen(bytes)
    IN IF ~opened.ok THEN Fail(opened.err) ELSE SavePNG(opened.img)

convert_pdf_to_jpeg(bytes) ==
    LET pix == Rasterize(bytes)
        opened == ImageOpen(PngBytes(pix.img))
        flat == Flatten(opened.img)
    IN IF ~pix.ok THEN Fail(pix.err)
       ELSE IF ~opened.ok THEN Fail(opened.err)
       ELSE IF ~flat.ok THEN Fail(flat.err)
       ELSE SaveJPEG(flat.img)

\* supported_conversions[conversion_key], applied to the file's bytes
Convert(key, bytes) ==
    CASE key = <<"pdf", "png">> -> convert_pdf_to_png(bytes)
      [] key = <<"png", "jpeg">> -> convert_png_to_jpeg(bytes)
      [] key = <<"jpeg", "png">> -> convert_jpeg_to_png(bytes)
      [] key = <<"pdf", "jpeg">> -> convert_pdf_to_jpeg(bytes)
      [] OTHER -> Fail("KeyError")

\* convert_pdf_to_jpeg keeps the ContentType of the function it was copied from
ContentTypeCopied(key) ==
    IF key \in {<<"pdf", "png">>, <<"jpeg", "png">>, <<"pdf", "jpeg">>}
    THEN "image/png" ELSE "image/jpeg"

\* the ContentType each conversion function passes to put_object
ContentTypeOf(key) ==
    CASE key = <<"pdf", "png">> -> "image/png"
      [] key = <<"png", "jpeg">> -> "image/jpeg"
      [] key = <<"jpeg", "png">> -> "image/png"
      [] key = <<"pdf", "jpeg">> -> "image/jpeg"
      [] OTHER -> ""

----------------------------------------------------------------------------
(* Events *)

\* file contents a client may send
Payloads ==
    { <<>>,
      <<SigPNG, 6, 0, 0, 0, 0>>, <<SigPNG, 6, 0, 0, 0, 128>>, <<SigPNG, 6, 255, 0, 0, 255>>,
      <<SigPNG, 4, 0, 0>>, <<SigPNG, 4, 0, 255>>,
      <<SigPNG, 2, 0, 128, 255>>, <<SigPNG, 0, 128>>, <<SigPNG, 3, 1>>,
      <<SigJPEG, 3, 0, 128, 255>>, <<SigJPEG, 1, 128>>,
      <<SigPDF, 1, 0>>, <<SigPDF, 2, 255, 0>>,
      <<1, 2, 3>> }

\* text that is not the base64 encoding of anything: one data character, three
\* data characters without padding; and an encoding with a foreign character
BadBase64 == { <<19>>, <<19, 20, 21>> }

NoisyBase64 == { <<65>> \o B64Encode(<<SigPDF, 1, 0>>) }

SourceOpts == { <<>>, <<"pdf">>, <<"PDF">>, <<"png">>, <<"jpeg">>, <<"gif">> }

TargetOpts == { <<>>, <<"png">>, <<"PNG">>, <<"jpeg">>, <<"JPEG">>, <<"pdf">> }

HeaderOpts == { "absent", "null", "empty", "content-type" }

QueryParts ==
    [query : {"absent", "null"}, sourceFormat : {<<>>}, targetFormat : {<<>>}]
    \cup [query : {"map"}, sourceFormat : SourceOpts, targetFormat : TargetOpts]

BodyParts ==
    [hasBody : {FALSE}, body : {<<>>}, isBase64Encoded : {"absent", "false", "true"}]
    \cup [hasBody : {TRUE}, body : Payloads, isBase64Encoded : {"absent", "false"}]
    \cup [hasBody : {TRUE}, isBase64Encoded : {"true"},
          body : {B64Encode(b) : b \in Payloads} \cup BadBase64 \cup NoisyBase64]

MakeEvent(b, q, h) ==
    [hasBody |-> b.hasBody, body |-> b.body, isBase64Encoded |-> b.isBase64Encoded,
     headers |-> h, query |-> q.query,
     sourceFormat |-> q.sourceFormat, targetFormat |-> q.targetFormat]

Events == { MakeEvent(b, q, h) : b \in BodyParts, q \in QueryParts, h \in HeaderOpts }

NoEvent == MakeEvent([hasBody |-> FALSE, body |-> <<>>, isBase64Encoded |-> "absent"],
                     [query |-> "absent", sourceFormat |-> <<>>, targetFormat |-> <<>>],
                     "absent")

\* the events of the concurrent specification: a base64 RGBA PNG and a raw
\* LA PNG to convert to JPEG, and a raw two-page PDF to convert to PNG
ConcEvents ==
    { MakeEvent([hasBody |-> TRUE, isBase64Encoded |-> "true",
                 body |-> B64Encode(<<SigPNG, 6, 0, 0, 0, 128>>)],
                [query |-> "map", sourceFormat |-> <<"png">>, targetFormat |-> <<"jpeg">>],
                "content-type"),
      MakeEvent([hasBody |-> TRUE, isBase64Encoded |-> "false",
                 body |-> <<SigPNG, 4, 0, 255>>],
                [query |-> "map", sourceFormat |-> <<"png">>, targetFormat |-> <<"jpeg">>],
                "absent"),
      MakeEvent([hasBody |-> TRUE, isBase64Encoded |-> "absent",
                 body |-> <<SigPDF, 2, 255, 0>>],
                [query |-> "map", sourceFormat |-> <<"PDF">>, targetFormat |-> <<"png">>],
                "empty") }

----------------------------------------------------------------------------
(* State shared by the steps *)

NoName == [uuid |-> 0, ext |-> ""]

NoPath == [dir |-> "", name |-> NoName]

\* f"{uuid.uuid4()}.{source_format}"
FileName(u, fmt) == [uuid |-> u, ext |-> fmt]

\* a temp path that keeps only the extension: f"/tmp/input.{source_format}"
TmpPathFixed(name) == [dir |-> "/tmp/", name |-> FileName(0, name.ext)]

\* temp_input_path = f"/tmp/{input_filename}"
TmpPath(name) == [dir |-> "/tmp/", name |-> name]

\* s3_client.put_object: the object under Key is replaced
PutObject(bucket, obj) == {o \in bucket : o.Key # obj.Key} \cup {obj}

HasKey(bucket, key) == \E o \in bucket : o.Key = key

GetObject(bucket, key) == CHOOSE o \in bucket : o.Key = key

WriteFile(fs, path, content) ==
    {f \in fs : f.path # path} \cup {[path |-> path, content |-> content]}

Exists(fs, path) == \E f \in fs : f.path = path

ReadFile(fs, path) == (CHOOSE f \in fs : f.path = path).content

\* generate_presigned_url('get_object', Params={Bucket, Key}, ExpiresIn)
PresignedUrl(bucket, key, expires) ==
    [method |-> "get_object", Bucket |-> bucket, Key |-> key, ExpiresIn |-> expires]

Call(op, bucket, key, path, expires, ok) ==
    [op |-> op, bucket |-> bucket, key |-> key, path |-> path,
     expires |-> expires, ok |-> ok]

\* response(status_code, body)
response(status_code, message, supported, url) ==
    [statusCode |-> status_code,
     headers |-> [ContentType |-> "application/json",
                  AccessControlAllowOrigin |-> "*",
                  AccessControlAllowMethods |-> "OPTIONS,POST,GET"],
     body |-> [message |-> message, supported_conversions |-> supported,
               output_url |-> url]]

\* return response(...): the invocation ends with this response
Return(i, r) ==
    /\ pc' = [pc EXCEPT ![i] = "done"]
    /\ resp' = [resp EXCEPT ![i] = Append(@, r)]

\* except OSError as e: only I/O errors are caught, the others escape
RaiseNarrow(i, err) ==
    IF err \in {"put_object failed", "download_file failed", "remove failed",
                "generate_presigned_url failed", "No such file or directory"}
    THEN Return(i, response(500, <<"Conversion error: ", err>>, <<>>, <<>>))
    ELSE /\ pc' = [pc EXCEPT ![i] = "escaped"]
         /\ UNCHANGED resp

\* except Exception as e: return response(500, ...)
Raise(i, err) ==
    Return(i, response(500, <<"Conversion error: ", err>>, <<>>, <<>>))

Goto(i, label) ==
    /\ pc' = [pc EXCEPT ![i] = label]
    /\ UNCHANGED resp

Log(i, c) == calls' = [calls EXCEPT ![i] = Append(@, c)]

\* if not event.get('body'): an empty body counts as missing
BodyMissingOrEmpty(e) == ~e.hasBody \/ e.body = <<>>

\* 'body' not in event
BodyMissing(e) == ~e.hasBody

\* query_params.get(name, '') with query_params = event.get(...) or {}
QueryGet(e, value) == IF e.query = "map" /\ value # <<>> THEN value[1] ELSE ""

ConversionKey(i) == <<source_format[i], target_format[i]>>

----------------------------------------------------------------------------
(* Initial state: no invocation has started, buckets and /tmp are empty *)

Init ==
    /\ pc = [i \in Invs |-> "idle"]
    /\ event = [i \in Invs |-> NoEvent]
    /\ body = [i \in Invs |-> <<>>]
    /\ source_format = [i \in Invs |-> ""]
    /\ target_format = [i \in Invs |-> ""]
    /\ input_filename = [i \in Invs |-> NoName]
    /\ output_filename = [i \in Invs |-> NoName]
    /\ data = [i \in Invs |-> NoData]
    /\ resp = [i \in Invs |-> <<>>]
    /\ calls = [i \in Invs |-> <<>>]
    /\ inputBucket = {}
    /\ outputBucket = {}
    /\ tmpfs = {}
    /\ nextUuid = 1

----------------------------------------------------------------------------
(* lambda_handler, one action per statement group *)

\* the runtime calls lambda_handler(event, context)
InvokeFrom(i, E) ==
    /\ pc[i] = "idle"
    /\ \E e \in E : event' = [event EXCEPT ![i] = e]
    /\ Goto(i, "check_body")
    /\ UNCHANGED <<locals, calls, shared>>

Invoke(i) == InvokeFrom(i, Events)

InvokeConc(i) == InvokeFrom(i, ConcEvents)

\* if 'body' not in event: return response(400, ...)
CheckBody(i) ==
    /\ pc[i] = "check_body"
    /\ IF BodyMissing(event[i])
       THEN Return(i, response(400, <<"No file content found">>, <<>>, <<>>))
       ELSE Goto(i, "decode")
    /\ UNCHANGED <<event, locals, calls, shared>>

\* the body is used as received, the isBase64Encoded flag is ignored
DecodeSkipped(i) ==
    /\ pc[i] = "decode"
    /\ body' = [body EXCEPT ![i] = event[i].body]
    /\ Goto(i, "headers")
    /\ UNCHANGED <<event, source_format, target_format, input_filename,
                   output_filename, data, calls, shared>>

\* body = event['body']; if is_base64: body = base64.b64decode(body)
Decode(i) ==
    /\ pc[i] = "decode"
    /\ LET is_base64 == event[i].isBase64Encoded = "true"
           decoded == B64Decode(event[i].body)
       IN IF ~is_base64
          THEN /\ body' = [body EXCEPT ![i] = event[i].body]
               /\ Goto(i, "headers")
          ELSE IF decoded.ok
          THEN /\ body' = [body EXCEPT ![i] = decoded.bytes]
               /\ Goto(i, "headers")
          ELSE /\ Raise(i, decoded.err)
               /\ UNCHANGED body
    /\ UNCHANGED <<event, source_format, target_format, input_filename,
                   output_filename, data, calls, shared>>

\* headers = event.get('headers', {}); content_type = headers.get(...)
ReadHeaders(i) ==
    /\ pc[i] = "headers"
    /\ IF event[i].headers = "null"
       THEN Raise(i, "'NoneType' object has no attribute 'get'")
       ELSE Goto(i, "formats")
    /\ UNCHANGED <<event, locals, calls, shared>>

\* the formats are read but the key is not checked before the input is stored
ValidateLate(i) ==
    /\ pc[i] = "formats"
    /\ source_format' = [source_format EXCEPT ![i] =
                            Lower(QueryGet(event[i], event[i].sourceFormat))]
    /\ target_format' = [target_format EXCEPT ![i] =
                            Lower(QueryGet(event[i], event[i].targetFormat))]
    /\ Goto(i, "filenames")
    /\ UNCHANGED <<event, body, input_filename, output_filename, data, calls, shared>>

\* the query parameters, lower-cased, and the check against the table
ValidateFormats(i) ==
    /\ pc[i] = "formats"
    /\ LET s == Lower(QueryGet(event[i], event[i].sourceFormat))
           t == Lower(QueryGet(event[i], event[i].targetFormat))
       IN /\ source_format' = [source_format EXCEPT ![i] = s]
          /\ target_format' = [target_format EXCEPT ![i] = t]
          /\ IF <<s, t>> \notin RangeOf(SupportedKeys)
             THEN Return(i, response(400, <<"Unsupported conversion: ", s, " to ", t>>,
                                     SupportedKeys, <<>>))
             ELSE Goto(i, "filenames")
    /\ UNCHANGED <<event, body, input_filename, output_filename, data, calls, shared>>

\* input_filename = f"{uuid.uuid4()}.{source_format}", output_filename likewise
GenerateFilenames(i) ==
    /\ pc[i] = "filenames"
    /\ input_filename' = [input_filename EXCEPT ![i] = FileName(nextUuid, source_format[i])]
    /\ output_filename' = [output_filename EXCEPT ![i] = FileName(nextUuid + 1, target_format[i])]
    /\ nextUuid' = nextUuid + 2
    /\ Goto(i, "put_input")
    /\ UNCHANGED <<event, body, source_format, target_format, data, calls,
                   inputBucket, outputBucket, tmpfs>>

\* s3_client.put_object(Bucket=INPUT_BUCKET, Key=input_filename, Body=body)
PutInput(i) ==
    /\ pc[i] = "put_input"
    /\ \E ok \in BOOLEAN :
        /\ Log(i, Call("put_object", INPUT_BUCKET, input_filename[i], NoPath, 0, ok))
        /\ IF ok
           THEN /\ inputBucket' = PutObject(inputBucket,
                                            [Key |-> input_filename[i], Body |-> body[i]])
                /\ Goto(i, "download")
           ELSE /\ Raise(i, "put_object failed")
                /\ UNCHANGED inputBucket
    /\ UNCHANGED <<event, locals, outputBucket, tmpfs, nextUuid>>

\* conversion_function(input_filename, output_filename), first statement:
\* s3_client.download_file(INPUT_BUCKET, input_filename, temp_input_path)
Download(i) ==
    /\ pc[i] = "download"
    /\ \E ok \in BOOLEAN :
        LET found == ok /\ HasKey(inputBucket, input_filename[i])
            path == TmpPath(input_filename[i])
        IN /\ Log(i, Call("download_file", INPUT_BUCKET, input_filename[i], path, 0, found))
           /\ IF found
              THEN /\ tmpfs' = WriteFile(tmpfs, path,
                                         GetObject(inputBucket, input_filename[i]).Body)
                   /\ Goto(i, "codec")
              ELSE /\ Raise(i, "download_file failed")
                   /\ UNCHANGED tmpfs
    /\ UNCHANGED <<event, locals, inputBucket, outputBucket, nextUuid>>

\* the codec work on the temp file: fitz.open ... pix.tobytes, or
\* Image.open ... img.save
Codec(i) ==
    /\ pc[i] = "codec"
    /\ LET path == TmpPath(input_filename[i])
           r == IF Exists(tmpfs, path)
                THEN Convert(ConversionKey(i), ReadFile(tmpfs, path))
                ELSE Fail("No such file or directory")
       IN /\ Log(i, Call("codec", "", NoName, path, 0, r.ok))
          /\ IF r.ok
             THEN /\ data' = [data EXCEPT ![i] = r.data]
                  /\ Goto(i, "put_output")
             ELSE /\ Raise(i, r.err)
                  /\ UNCHANGED data
    /\ UNCHANGED <<event, body, source_format, target_format, input_filename,
                   output_filename, shared>>

\* the temp file is removed before the upload instead of after it
PutOutputAfterRemove(i) ==
    /\ pc[i] = "put_output"
    /\ \E ok \in BOOLEAN :
        /\ Log(i, Call("put_object", OUTPUT_BUCKET, output_filename[i], NoPath, 0, ok))
        /\ tmpfs' = {f \in tmpfs : f.path # TmpPath(input_filename[i])}
        /\ IF ok
           THEN /\ outputBucket' = PutObject(outputBucket,
                                             [Key |-> output_filename[i], Body |-> data[i],
                                              ContentType |-> ContentTypeOf(ConversionKey(i))])
                /\ Goto(i, "cleanup")
           ELSE /\ Raise(i, "put_object failed")
                /\ UNCHANGED outputBucket
    /\ UNCHANGED <<event, locals, inputBucket, nextUuid>>

\* s3_client.put_object(Bucket=OUTPUT_BUCKET, Key=output_filename, Body=..., ContentType=...)
PutOutput(i) ==
    /\ pc[i] = "put_output"
    /\ \E ok \in BOOLEAN :
        /\ Log(i, Call("put_object", OUTPUT_BUCKET, output_filename[i], NoPath, 0, ok))
        /\ IF ok
           THEN /\ outputBucket' = PutObject(outputBucket,
                                             [Key |-> output_filename[i], Body |-> data[i],
                                              ContentType |-> ContentTypeOf(ConversionKey(i))])
                /\ Goto(i, "cleanup")
           ELSE /\ Raise(i, "put_object failed")
                /\ UNCHANGED outputBucket
    /\ UNCHANGED <<event, locals, inputBucket, tmpfs, nextUuid>>

\* the temp file is never removed
CleanUpSkipped(i) ==
    /\ pc[i] = "cleanup"
    /\ Goto(i, "presign")
    /\ UNCHANGED <<event, locals, calls, shared>>

\* (doc.close()); os.remove(temp_input_path)
CleanUp(i) ==
    /\ pc[i] = "cleanup"
    /\ \E ok \in BOOLEAN :
        LET path == TmpPath(input_filename[i])
            removed == ok /\ Exists(tmpfs, path)
        IN /\ Log(i, Call("remove", "", NoName, path, 0, removed))
           /\ IF removed
              THEN /\ tmpfs' = {f \in tmpfs : f.path # path}
                   /\ Goto(i, "presign")
              ELSE /\ Raise(i, "remove failed")
                   /\ UNCHANGED tmpfs
    /\ UNCHANGED <<event, locals, inputBucket, outputBucket, nextUuid>>

\* url = s3_client.generate_presigned_url(...); return url;
\* return response(200, {'message': ..., 'output_url': output_file_url})
Presign(i) ==
    /\ pc[i] = "presign"
    /\ \E ok \in BOOLEAN :
        /\ Log(i, Call("generate_presigned_url", OUTPUT_BUCKET, output_filename[i],
                       NoPath, ExpiresIn, ok))
        /\ IF ok
           THEN Return(i, response(200, <<"File converted successfully">>, <<>>,
                                   <<PresignedUrl(OUTPUT_BUCKET, output_filename[i], ExpiresIn)>>))
           ELSE Raise(i, "generate_presigned_url failed")
    /\ UNCHANGED <<event, locals, shared>>

Step(i) ==
    \/ CheckBody(i) \/ Decode(i) \/ ReadHeaders(i) \/ ValidateFormats(i)
    \/ GenerateFilenames(i) \/ PutInput(i) \/ Download(i) \/ Codec(i)
    \/ PutOutput(i) \/ CleanUp(i) \/ Presign(i)

\* one invocation, any event
Next ==
    \E i \in Solo :
        \/ Invoke(i)
        \/ CheckBody(i) \/ Decode(i) \/ ReadHeaders(i) \/ ValidateFormats(i)
        \/ GenerateFilenames(i) \/ PutInput(i) \/ Download(i) \/ Codec(i)
        \/ PutOutput(i) \/ CleanUp(i) \/ Presign(i)

Spec == Init /\ [][Next]_vars

\* concurrent invocations sharing the buckets, /tmp and the uuid source
NextConc ==
    \E i \in Invs :
        \/ InvokeConc(i)
        \/ CheckBody(i) \/ Decode(i) \/ ReadHeaders(i) \/ ValidateFormats(i)
        \/ GenerateFilenames(i) \/ PutInput(i) \/ Download(i) \/ Codec(i)
        \/ PutOutput(i) \/ CleanUp(i) \/ Presign(i)

SpecConc == Init /\ [][NextConc]_vars

----------------------------------------------------------------------------
(* Vocabulary of the properties *)

Done(i) == pc[i] = "done"

Resp(i) == resp[i][1]

Status(i) == Resp(i).statusCode

Supported == RangeOf(SupportedKeys)

\* the lower-cased (source, target) pair of an event
EventKey(e) == <<Lower(QueryGet(e, e.sourceFormat)), Lower(QueryGet(e, e.targetFormat))>>

UnsupportedResponse(e) ==
    response(400, <<"Unsupported conversion: ", EventKey(e)[1], " to ", EventKey(e)[2]>>,
             << <<"pdf", "png">>, <<"png", "jpeg">>, <<"jpeg", "png">>, <<"pdf", "jpeg">> >>,
             <<>>)

NoFileResponse == response(400, <<"No file content found">>, <<>>, <<>>)

CallIdx(i) == 1..Len(calls[i])

\* positions of the calls of invocation i with this operation and bucket
Made(i, op, bucket) ==
    {k \in CallIdx(i) : calls[i][k].op = op /\ calls[i][k].bucket = bucket}

Succeeded(i, op, bucket) == {k \in Made(i, op, bucket) : calls[i][k].ok}

\* every call to S3 and to the file system succeeded (the codec aside)
ExternalOk(i) == \A k \in CallIdx(i) : calls[i][k].op # "codec" => calls[i][k].ok

IsCodecCall(c) == c.op = "codec"

IsSideEffect(c) == c.op # "codec"

----------------------------------------------------------------------------
(* C1 *)

\* C1: every finished request that has a body and whose lower-cased key is
\* not one of the four supported keys got the 400 "Unsupported conversion"
\* response with the four keys in table order, and no request with a
\* supported key got that rejection.
C1_UnsupportedRejected ==
    \A i \in Invs :
        Done(i) /\ event[i].hasBody =>
            IF EventKey(event[i]) \notin Supported
            THEN Resp(i) = UnsupportedResponse(event[i])
            ELSE Resp(i).body.message[1] # "Unsupported conversion: "

----------------------------------------------------------------------------
(* C2 *)

\* C2: a finished invocation got the 400 "No file content found" response
\* exactly when its event has no body, whatever its query parameters,
\* headers and isBase64Encoded flag are; such an invocation made no call.
C2_MissingBody ==
    \A i \in Invs :
        Done(i) =>
            /\ (~event[i].hasBody) <=> (Resp(i) = NoFileResponse)
            /\ ~event[i].hasBody => calls[i] = <<>>

\* a request without body, with null headers, the base64 flag set and an
\* unsupported pair, has been answered
C2_Witness ==
    \E i \in Invs :
        /\ Done(i) /\ ~event[i].hasBody
        /\ event[i].headers = "null" /\ event[i].isBase64Encoded = "true"
        /\ event[i].sourceFormat = <<"gif">>

----------------------------------------------------------------------------
(* C3 *)

Labels ==
    {"idle", "check_body", "decode", "headers", "formats", "filenames", "put_input",
     "download", "codec", "put_output", "cleanup", "presign", "done"}

\* C3: an invocation is always at a statement of the handler or finished
\* (no exception escapes); it has a response exactly when finished, and then
\* exactly one, with status 200, 400 or 500 and a message; a started,
\* unfinished invocation can always take its next step; a failed call or a
\* failed base64 decode ends in 500 "Conversion error: <text>", never in 200.
C3_OneResponse ==
    \A i \in Invs :
        /\ pc[i] \in Labels
        /\ Len(resp[i]) <= 1
        /\ Done(i) <=> Len(resp[i]) = 1
        /\ pc[i] \notin {"idle", "done"} => ENABLED Step(i)
        /\ Done(i) =>
            /\ Status(i) \in {200, 400, 500}
            /\ Resp(i).body.message # <<>>
            /\ Status(i) = 500 =>
                /\ Len(Resp(i).body.message) = 2
                /\ Resp(i).body.message[1] = "Conversion error: "
                /\ Resp(i).body.message[2] # ""
            /\ (\E k \in CallIdx(i) : ~calls[i][k].ok) => Status(i) = 500
            /\ ( /\ event[i].hasBody /\ event[i].isBase64Encoded = "true"
                 /\ ~B64Decode(event[i].body).ok )
               => Resp(i) = response(500, <<"Conversion error: ",
                                            B64Decode(event[i].body).err>>, <<>>, <<>>)

\* an invocation stored its input, then the codec failed, and it was answered
C3_Witness ==
    \E i \in Invs :
        /\ Done(i) /\ Status(i) = 500
        /\ Succeeded(i, "put_object", INPUT_BUCKET) # {}
        /\ \E k \in CallIdx(i) : IsCodecCall(calls[i][k]) /\ ~calls[i][k].ok

----------------------------------------------------------------------------
(* C4 *)

\* C4: an invocation that returned 200 made exactly these calls, in this
\* order, all successful: put_object to the input bucket, download_file to
\* its temp path, put_object to the output bucket, remove of the temp path,
\* generate_presigned_url with expiry 3600; its temp file no longer exists.
C4_SideEffects ==
    \A i \in Invs :
        Done(i) /\ Status(i) = 200 =>
            /\ ConversionKey(i) \in Supported
            /\ SelectSeq(calls[i], IsSideEffect) =
                 << Call("put_object", "INPUT_BUCKET", input_filename[i], NoPath, 0, TRUE),
                    Call("download_file", "INPUT_BUCKET", input_filename[i],
                         [dir |-> "/tmp/", name |-> input_filename[i]], 0, TRUE),
                    Call("put_object", "OUTPUT_BUCKET", output_filename[i], NoPath, 0, TRUE),
                    Call("remove", "", NoName,
                         [dir |-> "/tmp/", name |-> input_filename[i]], 0, TRUE),
                    Call("generate_presigned_url", "OUTPUT_BUCKET", output_filename[i],
                         NoPath, 3600, TRUE) >>
            /\ \A f \in tmpfs : f.path.name # input_filename[i]
            /\ Cardinality({o \in inputBucket : o.Key = input_filename[i]}) = 1
            /\ Cardinality({o \in outputBucket : o.Key = output_filename[i]}) = 1

\* a pdf-jpeg invocation returned 200
C4_Witness ==
    \E i \in Invs :
        Done(i) /\ Status(i) = 200 /\ ConversionKey(i) = <<"pdf", "jpeg">>

----------------------------------------------------------------------------
(* C5 *)

\* the bytes an event carries, had its invocation run alone
BytesOf(e) == IF e.isBase64Encoded = "true" THEN B64Decode(e.body).bytes ELSE e.body

Named(i) == input_filename[i] # NoName

\* C5: two invocations never share an input key, an output key or a temp
\* path, and no call of one names a key or a path that a call of the other
\* names; whatever the interleaving, the codec of each invocation read the
\* bytes of its own event, and an invocation that returned 200 left its own
\* bytes under its input key, the conversion of its own bytes under its
\* output key, and returned the URL of its own output key.
C5_NoSharing ==
    \A i \in Invs :
        /\ \A j \in Invs \ {i} :
            /\ Named(i) /\ Named(j) =>
                /\ input_filename[i] # input_filename[j]
                /\ output_filename[i] # output_filename[j]
                /\ input_filename[i].uuid # output_filename[j].uuid
                /\ TmpPath(input_filename[i]) # TmpPath(input_filename[j])
            /\ \A k \in CallIdx(i), m \in CallIdx(j) :
                /\ calls[i][k].key # NoName => calls[i][k].key # calls[j][m].key
                /\ calls[i][k].path # NoPath => calls[i][k].path # calls[j][m].path
        /\ \A k \in CallIdx(i) :
            IsCodecCall(calls[i][k]) =>
                calls[i][k].ok = Convert(EventKey(event[i]), BytesOf(event[i])).ok
        /\ Done(i) /\ Status(i) = 200 =>
            /\ [Key |-> input_filename[i], Body |-> BytesOf(event[i])] \in inputBucket
            /\ \E o \in outputBucket :
                /\ o.Key = output_filename[i]
                /\ o.Body = Convert(EventKey(event[i]), BytesOf(event[i])).data
            /\ Resp(i) = response(200, <<"File converted successfully">>, <<>>,
                                  <<PresignedUrl("OUTPUT_BUCKET", output_filename[i], 3600)>>)

\* two invocations of the same event are inside their conversion functions
\* at once, both temp files on disk
C5_Witness ==
    \E i \in Invs : \E j \in Invs \ {i} :
        /\ pc[i] = "codec" /\ pc[j] = "cleanup"
        /\ event[i] = event[j]
        /\ Cardinality(tmpfs) >= 2

----------------------------------------------------------------------------
(* C6 *)

PastDecode(i) == pc[i] \notin {"idle", "check_body", "decode"}

\* the invocation carries payload b, as base64 text with the flag set or as
\* raw bytes with the flag unset or false
Carries(i, b) ==
    /\ event[i].hasBody
    /\ \/ event[i].isBase64Encoded = "true" /\ event[i].body = B64Encode(b)
       \/ event[i].isBase64Encoded \in {"absent", "false"} /\ event[i].body = b

\* C6: on either encoding path of a payload b, `body` is b from the decode
\* step on, the object stored under the input key holds b, and when no call
\* to S3 or the file system fails the final status and the stored output are
\* the ones b, the headers and the query parameters determine, the same on
\* both paths.
C6_PathsConverge ==
    \A i \in Invs : \A b \in Payloads :
        Carries(i, b) =>
            /\ PastDecode(i) => body[i] = b
            /\ \A o \in inputBucket : o.Key = input_filename[i] => o.Body = b
            /\ Done(i) /\ ExternalOk(i) =>
                /\ Status(i) = IF event[i].headers = "null" THEN 500
                               ELSE IF EventKey(event[i]) \notin Supported THEN 400
                               ELSE IF Convert(EventKey(event[i]), b).ok THEN 200
                               ELSE 500
                /\ Status(i) = 200 =>
                    \E o \in outputBucket :
                        /\ o.Key = output_filename[i]
                        /\ o.Body = Convert(EventKey(event[i]), b).data

\* a base64 request was decoded, stored and converted
C6_Witness ==
    \E i \in Invs :
        /\ Done(i) /\ Status(i) = 200
        /\ event[i].isBase64Encoded = "true"
        /\ body[i] # event[i].body
        /\ [Key |-> input_filename[i], Body |-> body[i]] \in inputBucket

----------------------------------------------------------------------------
(* C7 *)

IsUnsupportedResponse(r) ==
    r.statusCode = 400 /\ r.body.message[1] = "Unsupported conversion: "

\* C7 as stated: a request rejected as an unsupported conversion has had its
\* input object stored before the rejection.
C7_StoredBeforeDispatch ==
    \A i \in Invs :
        Done(i) /\ IsUnsupportedResponse(Resp(i)) =>
            Succeeded(i, "put_object", INPUT_BUCKET) # {}

\* C7 amended: the key is checked before anything is stored. A request
\* rejected as unsupported has made no call and stored no object; the first
\* call of any invocation is the put of its input under its input key, made
\* once, with a supported key, and every later call follows its success.
C7_ValidatedBeforeStored ==
    \A i \in Invs :
        /\ Done(i) /\ IsUnsupportedResponse(Resp(i)) =>
            /\ calls[i] = <<>>
            /\ input_filename[i] = NoName
            /\ \A o \in inputBucket : \E j \in Invs \ {i} : o.Key = input_filename[j]
        /\ calls[i] # <<>> =>
            /\ ConversionKey(i) \in Supported
            /\ Made(i, "put_object", INPUT_BUCKET) = {1}
            /\ calls[i][1].key = input_filename[i]
            /\ Len(calls[i]) > 1 => calls[i][1].ok

\* a request with a body and an unsupported pair has been rejected
C7_Witness ==
    \E i \in Invs :
        /\ Done(i) /\ IsUnsupportedResponse(Resp(i))
        /\ event[i].hasBody /\ body[i] # <<>>

----------------------------------------------------------------------------
(* C8 *)

Removed(i) == \E k \in CallIdx(i) : calls[i][k].op = "remove" /\ calls[i][k].ok

Downloaded(i) == Succeeded(i, "download_file", INPUT_BUCKET) # {}

TmpFileExists(i) == Exists(tmpfs, TmpPath(input_filename[i]))

----------------------------------------------------------------------------
(* C9 *)

\* the image the JPEG conversions decode from the request's bytes
DecodedForJpeg(i) ==
    IF ConversionKey(i) = <<"png", "jpeg">>
    THEN ImageOpen(body[i])
    ELSE IF Rasterize(body[i]).ok
    THEN ImageOpen(PngBytes(Rasterize(body[i]).img))
    ELSE [ok |-> FALSE, err |-> "", img |-> NoImage]

\* C9: a png-jpeg or pdf-jpeg invocation whose decoded image is RGBA or LA,
\* and whose calls to S3 and the file system all succeed, returns 200 and
\* stores a quality-90 JPEG of an RGB image without alpha band; a fully
\* transparent source pixel is (255,255,255) in that image.
C9_AlphaFlattened ==
    \A i \in Invs :
        ( /\ Done(i) /\ ExternalOk(i)
          /\ \E k \in CallIdx(i) : IsCodecCall(calls[i][k])
          /\ ConversionKey(i) \in {<<"png", "jpeg">>, <<"pdf", "jpeg">>}
          /\ DecodedForJpeg(i).ok
          /\ DecodedForJpeg(i).img.mode \in {"RGBA", "LA"} )
        => /\ Status(i) = 200
           /\ \E o \in outputBucket :
               /\ o.Key = output_filename[i]
               /\ o.Body.format = "JPEG" /\ o.Body.quality = 90
               /\ o.Body.mode = "RGB"
               /\ LET src == DecodedForJpeg(i).img.px
                  IN src[Len(src)] = 0 => o.Body.px = <<255, 255, 255>>

----------------------------------------------------------------------------
(* C10 *)

\* C10: an invocation that returned 200 returns the presigned URL of the
\* output bucket and its own output key, issued after the object was put
\* under that key; its input key ends in the lower-cased sourceFormat, its
\* output key in the lower-cased targetFormat, and the output object is
\* tagged image/png for target png and image/jpeg for target jpeg and holds
\* data of that format.
C10_OutputUrl ==
    \A i \in Invs :
        Done(i) /\ Status(i) = 200 =>
            /\ Resp(i).body.output_url =
                 << [method |-> "get_object", Bucket |-> "OUTPUT_BUCKET",
                     Key |-> output_filename[i], ExpiresIn |-> 3600] >>
            /\ \E k \in Succeeded(i, "put_object", OUTPUT_BUCKET) :
               \E m \in Succeeded(i, "generate_presigned_url", OUTPUT_BUCKET) :
                    /\ k < m
                    /\ calls[i][k].key = output_filename[i]
                    /\ calls[i][m].key = output_filename[i]
            /\ input_filename[i].ext = Lower(event[i].sourceFormat[1])
            /\ output_filename[i].ext = Lower(event[i].targetFormat[1])
            /\ input_filename[i].uuid # output_filename[i].uuid
            /\ \E o \in outputBucket :
                /\ o.Key = output_filename[i]
                /\ output_filename[i].ext = "png" =>
                       o.ContentType = "image/png" /\ o.Body.format = "PNG"
                /\ output_filename[i].ext = "jpeg" =>
                       o.ContentType = "image/jpeg" /\ o.Body.format = "JPEG"
                /\ output_filename[i].ext \in {"png", "jpeg"}

\* a PDF to JPEG request spelled in upper case returned 200
C10_Witness ==
    \E i \in Invs :
        /\ Done(i) /\ Status(i) = 200
        /\ event[i].sourceFormat = <<"PDF">> /\ event[i].targetFormat = <<"JPEG">>

====
